---- MODULE Spec2Model ----
(***************************************************************************)
(* Model of the media generator backend (backend/src/main.py): the project *)
(* registry, the per-project processing pipeline and the batch runner.     *)
(*                                                                         *)
(* The application runs on one asyncio event loop, so a coroutine runs     *)
(* without interruption between two suspension points.  The suspension     *)
(* points of a pipeline are the awaits of the external collaborators       *)
(* (analyze_text, generate_image, process_scene_images_to_videos) and the  *)
(* acquisition of the batch semaphore.  Each action below is the code      *)
(* executed between two such points.                                       *)
(***************************************************************************)
EXTENDS Integers, Sequences, FiniteSets, TLC

\* ---- bounds of the model ----
MaxProjects == 2
MaxScenes == 2
MaxRuns == 2
MaxBatch == 2
MaxConcurrent == 2
\* under SpecBatch: scenes per analysis, runs scheduled outside the batch
MaxBatchScenes == 1
MaxCreated == 1

VARIABLES projects_db, active_processing, lists, runs, batch,
          tool, video, balance, quality, audio

\* the state of the media services (services/tool_service.py and the
\* generators of core/), which the HTTP application does not touch
media == <<tool, video, balance, quality, audio>>

\* the state of the HTTP application (main.py)
app == <<projects_db, active_processing, lists, runs, batch>>

vars == <<projects_db, active_processing, lists, runs, batch, tool, video, balance, quality, audio>>

ProjectIds == 1..MaxProjects

\* ---- models/project.py ----
ProjectStatus == {"created", "text_analyzing", "text_analyzed", "images_generating",
                  "images_generated", "videos_generating", "videos_generated",
                  "completed", "failed"}

ProcessingStep == {"pending", "processing", "completed", "failed"}

\* A scene as the pipeline uses it: image_path is whether a local path is set.
Scene == [image_generation_status |-> "pending", image_path |-> FALSE,
          video_generation_status |-> "pending"]

ProcessingStats == [total_scenes |-> 0, images_generated |-> 0, failed_images |-> 0,
                    videos_generated |-> 0, failed_videos |-> 0, failed_scenes |-> 0]

\* original_text is the truth value of the text (None and "" are falsy);
\* scenes is the identity of the list object the attribute refers to.
Project(text) == [original_text |-> text, status |-> "created", scenes |-> 0,
                  stats |-> ProcessingStats]

\* ---- helpers ----
Put(f, k, v) == [x \in (DOMAIN f) \cup {k} |-> IF x = k THEN v ELSE f[x]]

Min(S) == CHOOSE x \in S : \A y \in S : x <= y

\* One execution of process_project_pipeline (or of process_single_project
\* around it, when member is TRUE).  overlap tells that start_processing
\* scheduled it while a run of the project was in progress; the fields after
\* result are history, and those about the place of a stop last as long as the run.
NewRun(p, isMember, overlap) ==
    [proj |-> p, pc |-> IF isMember THEN "waiting" ELSE "scheduled",
     overlap |-> overlap,
     iter |-> 0, idx |-> 0, member |-> isMember, result |-> "pending",
     endStatus |-> "none", segFailed |-> FALSE, unitFailed |-> FALSE,
     stopped |-> FALSE, cancelled |-> FALSE,
     stopStage |-> "none", stopK |-> 0, restarted |-> FALSE,
     seen |-> 0, disorder |-> FALSE, inOrder |-> FALSE]

InProgress(run) == run.pc \in {"analyze", "image", "video"}

Cur == [db |-> projects_db, act |-> active_processing, lists |-> lists, runs |-> runs]

\* active_processing.get(project_id, False)
Active(S, p) == p \in DOMAIN S.act /\ S.act[p]

\* the values project.status takes in a run that goes to its end
StatusOrder == <<"text_analyzing", "text_analyzed", "images_generating",
                 "images_generated", "videos_generating", "videos_generated",
                 "completed">>

\* History: a run in progress has seen its project's status take the value
\* st; seen counts the values of StatusOrder taken in order so far.
NoteStatus(run, st) ==
    IF run.seen < Len(StatusOrder) /\ st = StatusOrder[run.seen + 1]
    THEN [run EXCEPT !.seen = @ + 1]
    ELSE [run EXCEPT !.disorder = TRUE]

\* History: the runs x..Len(rs) in progress on project p note the value st.
RECURSIVE NoteStatusFrom(_, _, _, _)
NoteStatusFrom(rs, p, st, x) ==
    IF x > Len(rs) THEN rs
    ELSE NoteStatusFrom(IF rs[x].proj = p /\ InProgress(rs[x])
                        THEN [rs EXCEPT ![x] = NoteStatus(rs[x], st)]
                        ELSE rs,
                        p, st, x + 1)

\* project.status = st; an assignment of the value the status has already
\* is no move of the status
SetStatus(S, p, st) ==
    [S EXCEPT !.db[p].status = st,
              !.runs = IF S.db[p].status # st
                       THEN NoteStatusFrom(S.runs, p, st, 1) ELSE S.runs]

\* ---- process_project_pipeline, lines 453-465: final check and finally ----
\* Mutant of Finish: a failing run also clears the flag of every other project.
FinishCancelSiblings(S, r) ==
    LET p == S.runs[r].proj
        failed == S.db[p].status = "failed"
    IN  [S EXCEPT
          !.act = [q \in (DOMAIN S.act) \cup {p} |->
                      IF q = p \/ failed THEN FALSE ELSE S.act[q]],
          !.runs = [x \in DOMAIN S.runs |->
                      IF x = r
                      THEN [S.runs[x] EXCEPT !.pc = "done", !.result = "returned",
                                             !.iter = 0, !.idx = 0,
                                             !.restarted = FALSE,
                                             !.stopStage = "none", !.stopK = 0,
                                             !.seen = 0, !.disorder = FALSE,
                                             !.inOrder = /\ ~S.runs[x].disorder
                                                         /\ S.runs[x].seen = Len(StatusOrder),
                                             !.endStatus = S.db[p].status]
                      ELSE S.runs[x]]]

\* finally: active_processing[project_id] = False; the coroutine returns and
\* its locals are gone.  Every other run in progress on the same project has
\* lost its flag.
Finish(S, r) ==
    LET p == S.runs[r].proj
    IN  [S EXCEPT
          !.act = Put(S.act, p, FALSE),
          !.runs = [x \in DOMAIN S.runs |->
                      IF x = r
                      THEN [S.runs[x] EXCEPT !.pc = "done", !.result = "returned",
                                             !.iter = 0, !.idx = 0,
                                             !.restarted = FALSE,
                                             !.stopStage = "none", !.stopK = 0,
                                             !.seen = 0, !.disorder = FALSE,
                                             !.inOrder = /\ ~S.runs[x].disorder
                                                         /\ S.runs[x].seen = Len(StatusOrder),
                                             !.endStatus = S.db[p].status]
                      ELSE IF S.runs[x].proj = p /\ InProgress(S.runs[x])
                           THEN [S.runs[x] EXCEPT !.cancelled = TRUE]
                           ELSE S.runs[x]]]

\* if active_processing.get(project_id, False): project.status = COMPLETED
FinalCheck(S, r) ==
    LET p == S.runs[r].proj
    IN  Finish(IF Active(S, p) THEN SetStatus(S, p, "completed") ELSE S, r)

\* ---- process_video_generation ----
\* line 610, then back in the pipeline
AfterVideos(S, r) == FinalCheck(SetStatus(S, S.runs[r].proj, "videos_generated"), r)

\* The for loop from scene j on, up to the next await (lines 568-577):
\* break when the flag is off, skip the scenes without a generated image.
VideoLoop(S, r, j) ==
    LET p == S.runs[r].proj
        l == S.runs[r].iter
        n == Len(S.lists[l])
        eligible == {k \in j..n : /\ S.lists[l][k].image_generation_status = "completed"
                                  /\ S.lists[l][k].image_path}
    IN  IF j > n \/ ~Active(S, p) \/ eligible = {}
        THEN AfterVideos(S, r)
        ELSE LET k == Min(eligible)
             IN  [S EXCEPT !.lists[l][k].video_generation_status = "processing",
                           !.runs[r].pc = "video", !.runs[r].idx = k]

\* lines 563-568: the loop iterates the list project.scenes refers to now
VideoStage(S, r) ==
    LET p == S.runs[r].proj
        S1 == [SetStatus(S, p, "videos_generating") EXCEPT !.runs[r].iter = S.db[p].scenes]
    IN  VideoLoop(S1, r, 1)

\* lines 593-608: the outcome of one scene's video synthesis
VideoOutcome(S, r, ok) ==
    LET p == S.runs[r].proj
        l == S.runs[r].iter
        k == S.runs[r].idx
    IN  IF ok
        THEN [S EXCEPT !.lists[l][k].video_generation_status = "completed",
                       !.db[p].stats.videos_generated = @ + 1]
        ELSE [S EXCEPT !.lists[l][k].video_generation_status = "failed",
                       !.db[p].stats.failed_videos = @ + 1,
                       !.runs[r].unitFailed = TRUE]

\* ---- process_image_generation ----
\* line 557, then lines 449-451 of the pipeline
AfterImages(S, r) ==
    LET p == S.runs[r].proj
        S1 == SetStatus(S, p, "images_generated")
    IN  IF Active(S1, p) THEN VideoStage(S1, r) ELSE FinalCheck(S1, r)

\* Mutant of ImageOutcome: a failed synthesis is not counted.
ImageOutcomeUncounted(S, r, ok) ==
    LET p == S.runs[r].proj
        l == S.runs[r].iter
        k == S.runs[r].idx
    IN  IF ok
        THEN [S EXCEPT !.lists[l][k].image_generation_status = "completed",
                       !.lists[l][k].image_path = TRUE,
                       !.db[p].stats.images_generated = @ + 1]
        ELSE [S EXCEPT !.lists[l][k].image_generation_status = "failed",
                       !.runs[r].unitFailed = TRUE]

\* lines 540-555: the outcome of one scene's image synthesis
ImageOutcome(S, r, ok) ==
    LET p == S.runs[r].proj
        l == S.runs[r].iter
        k == S.runs[r].idx
    IN  IF ok
        THEN [S EXCEPT !.lists[l][k].image_generation_status = "completed",
                       !.lists[l][k].image_path = TRUE,
                       !.db[p].stats.images_generated = @ + 1]
        ELSE [S EXCEPT !.lists[l][k].image_generation_status = "failed",
                       !.db[p].stats.failed_images = @ + 1,
                       !.runs[r].unitFailed = TRUE]

\* The for loop from scene i on, up to the next await (lines 524-538).
\* order=project.scenes.index(scene) is evaluated inside the try: when
\* project.scenes has been replaced by another run's analysis, the scene is
\* not in the new list (its created_at differs), index raises ValueError and
\* the except branch marks the scene failed without any await.
ImageLoop(S, r, i) ==
    LET p == S.runs[r].proj
        l == S.runs[r].iter
        n == Len(S.lists[l])
    IN  IF i > n \/ ~Active(S, p)
        THEN AfterImages(S, r)
        ELSE IF S.db[p].scenes # l
        THEN AfterImages(
               [S EXCEPT !.lists[l] = [k \in 1..n |->
                                         IF k >= i
                                         THEN [S.lists[l][k] EXCEPT
                                                 !.image_generation_status = "failed"]
                                         ELSE S.lists[l][k]],
                         !.db[p].stats.failed_images = @ + (n - i + 1),
                         !.runs[r].unitFailed = TRUE], r)
        ELSE [S EXCEPT !.lists[l][i].image_generation_status = "processing",
                       !.runs[r].pc = "image", !.runs[r].idx = i]

\* lines 519-524
ImageStage(S, r) ==
    LET p == S.runs[r].proj
        S1 == [SetStatus(S, p, "images_generating") EXCEPT !.runs[r].iter = S.db[p].scenes]
    IN  ImageLoop(S1, r, 1)

\* ---- process_text_analysis, lines 489-513, with n text chunks returned ----
\* The new list object is named after the run that builds it.
ScenesBuilt(S, r, n, failed) ==
    LET p == S.runs[r].proj
        S1 == [S EXCEPT !.lists = Put(S.lists, r, [k \in 1..n |-> Scene]),
                        !.db[p].scenes = r,
                        !.runs[r].segFailed = failed]
    IN  [SetStatus(S1, p, "text_analyzed") EXCEPT !.db[p].stats.total_scenes = n]

\* lines 432-443 and 478-486: entry of the pipeline up to the analyzer call;
\* a project without text raises, which the pipeline's except turns to FAILED.
PipelineEntry(S, r) ==
    LET p == S.runs[r].proj
        S1 == [SetStatus(S, p, "text_analyzing") EXCEPT !.act = Put(S.act, p, TRUE),
                                                        !.runs[r].seen = 1]
    IN  IF ~S1.db[p].original_text
        THEN Finish(SetStatus(S1, p, "failed"), r)
        ELSE [S1 EXCEPT !.runs[r].pc = "analyze"]

\* The list objects still referred to, by a project or by a running loop; the
\* others are garbage.
Live(T) ==
    {0} \cup {T.db[p].scenes : p \in DOMAIN T.db}
        \cup {T.runs[r].iter : r \in {x \in DOMAIN T.runs : InProgress(T.runs[x])}}

\* the next state of the four variables a pipeline step writes
Becomes(T) ==
    /\ projects_db' = T.db
    /\ active_processing' = T.act
    /\ lists' = [l \in (DOMAIN T.lists) \cap Live(T) |-> T.lists[l]]
    /\ runs' = T.runs

\* Mutant of ImageResumed: the failure of a scene escapes the loop and reaches
\* the except branch of the pipeline.
ImageResumedRaises(S, r, ok) ==
    IF ok
    THEN ImageLoop(ImageOutcome(S, r, ok), r, S.runs[r].idx + 1)
    ELSE Finish(SetStatus(ImageOutcome(S, r, ok), S.runs[r].proj, "failed"), r)

\* generate_image has returned or raised: record it, go on with the loop
ImageResumed(S, r, ok) == ImageLoop(ImageOutcome(S, r, ok), r, S.runs[r].idx + 1)

\* process_scene_images_to_videos has returned or raised
VideoResumed(S, r, ok) == VideoLoop(VideoOutcome(S, r, ok), r, S.runs[r].idx + 1)

\* analyze_text has returned n chunks (lines 443-447)
AnalysisResumed(S, r, n, failed) ==
    LET S1 == ScenesBuilt(S, r, n, failed)
    IN  IF Active(S1, S.runs[r].proj) THEN ImageStage(S1, r) ELSE FinalCheck(S1, r)

\* ---- history kept for the properties ----
SomeInProgress(p) == \E r \in DOMAIN runs : runs[r].proj = p /\ InProgress(runs[r])

\* a start naming one of the projects of ps has been accepted
NoteStart(rs, ps) ==
    [r \in DOMAIN rs |->
        IF rs[r].proj \in ps /\ rs[r].stopped /\ InProgress(rs[r])
        THEN [rs[r] EXCEPT !.restarted = TRUE]
        ELSE rs[r]]

\* stop_processing has cleared the flag of project p
NoteStop(rs, p) ==
    [r \in DOMAIN rs |->
        IF rs[r].proj = p /\ InProgress(rs[r])
        THEN [rs[r] EXCEPT
                !.stopped = TRUE, !.cancelled = TRUE,
                !.stopStage = IF rs[r].stopStage = "none" /\ rs[r].pc \in {"image", "video"}
                              THEN rs[r].pc ELSE @,
                !.stopK = IF rs[r].stopStage = "none" /\ rs[r].pc \in {"image", "video"}
                          THEN rs[r].idx ELSE @]
        ELSE rs[r]]

\* the runs the handlers other than the batch have scheduled
Scheduled == {r \in DOMAIN runs : ~runs[r].member}

\* ======================= the media services =======================
\* Durations are in tenths of a second.

\* the longest list given to _balance_sequences or create_video_from_sequences
MaxTrack == 3
\* the number of sequences of one ToolService run
MaxSequences == 2

\* image_display_time: None, or a number of tenths of a second
None == [given |-> FALSE, time |-> 0]

Some(t) == [given |-> TRUE, time |-> t]

Max(a, b) == IF a >= b THEN a ELSE b

\* ---- media items ----
\* A PIL image: the image made for sequence scene, or a black placeholder.
Image(i) == [kind |-> "image", scene |-> i]

\* Audio bytes: wav tells whether moviepy can decode them, duration is the
\* length it then measures; scene is the sequence whose narration they are
\* (0 for a pause and for padding).
Speech(i, d) == [kind |-> "speech", scene |-> i, duration |-> d, wav |-> TRUE]

\* ---- core/audio_generator.py ----
\* AudioGenerator._generate_silence: a silent wav, or 1024 zero bytes when
\* pydub cannot export
_generate_silence(duration, pydub) ==
    IF pydub THEN [kind |-> "silence", scene |-> 0, duration |-> duration, wav |-> TRUE]
    ELSE [kind |-> "zeros", scene |-> 0, duration |-> 0, wav |-> FALSE]

\* the longest narration text, in characters
MaxChars == 12

\* What the TTS model does with a text: it raises, or it writes speech of
\* some length.
Raised == [raised |-> TRUE, duration |-> 0]

Spoken(d) == [raised |-> FALSE, duration |-> d]

\* AudioGenerator.generate_audio for a text of `text` characters; tts is
\* whether a TTS model was initialised.  Without a model the result is 3.0 s
\* of silence; when the synthesis raises it is silence of 0.1 s per
\* character, int(duration * 1000) milliseconds long.
generate_audio(text, tts, speech, pydub) ==
    IF ~tts THEN _generate_silence(30, pydub)
    ELSE IF speech.raised THEN _generate_silence(text, pydub)
    ELSE Speech(0, speech.duration)

\* The bytes generate_audio can return for the narration of one sequence:
\* speech, or silence when the TTS model is missing (3.0 s) or fails
\* (0.1 s per character).  None of them is empty, so `if audio_data` holds.
AudioOutcomes(pydub) ==
    {Speech(0, 10), Speech(0, 20), _generate_silence(30, pydub)}

\* The loop of generate_sequence_audio from sequence i on; outs[i] is what
\* generate_audio returns for sequence i.  A sequence whose emotions list is
\* empty raises IndexError at emotions[0]: the except branch appends 3.0 s of
\* silence and no pause.
RECURSIVE SequenceAudioFrom(_, _, _, _, _, _)
SequenceAudioFrom(i, audio_segments, sequences, add_pauses, outs, pydub) ==
    IF i > Len(sequences) THEN audio_segments
    ELSE IF ~sequences[i].emotions
    THEN SequenceAudioFrom(i + 1,
             Append(audio_segments, [_generate_silence(30, pydub) EXCEPT !.scene = i]),
             sequences, add_pauses, outs, pydub)
    ELSE SequenceAudioFrom(i + 1,
             Append(audio_segments, [outs[i] EXCEPT !.scene = i])
                \o (IF add_pauses /\ i < Len(sequences)
                    THEN <<_generate_silence(5, pydub)>> ELSE << >>),
             sequences, add_pauses, outs, pydub)

generate_sequence_audio(sequences, add_pauses, outs, pydub) ==
    SequenceAudioFrom(1, << >>, sequences, add_pauses, outs, pydub)

\* ---- the image generator ToolService calls ----
\* ImageGenerator.generate_sequence_images is not among the sources; by the
\* specification (4.1) every sequence gets an image, a placeholder when its
\* synthesis failed.
generate_sequence_images(sequences, ok) ==
    [i \in 1..Len(sequences) |->
        IF ok[i] THEN Image(i) ELSE [kind |-> "placeholder", scene |-> i]]

\* ---- core/video_generator.py ----
_create_placeholder_image == [kind |-> "placeholder", scene |-> 0]

_create_silence_bytes(duration, pydub) ==
    IF pydub THEN [kind |-> "silence", scene |-> 0, duration |-> duration, wav |-> TRUE]
    ELSE [kind |-> "zeros", scene |-> 0, duration |-> 0, wav |-> FALSE]

\* while len(images) < target_length: append the last image, or a
\* placeholder when there is none
RECURSIVE ExtendImages(_, _)
ExtendImages(images, target_length) ==
    IF Len(images) < target_length
    THEN ExtendImages(Append(images, IF images # << >> THEN images[Len(images)]
                                     ELSE _create_placeholder_image),
                      target_length)
    ELSE images

\* while len(audio_segments) < target_length: append the last clip, or 3.0 s
\* of silence when there is none
RECURSIVE ExtendAudio(_, _, _)
ExtendAudio(audio_segments, target_length, pydub) ==
    IF Len(audio_segments) < target_length
    THEN ExtendAudio(Append(audio_segments,
                            IF audio_segments # << >>
                            THEN audio_segments[Len(audio_segments)]
                            ELSE _create_silence_bytes(30, pydub)),
                     target_length, pydub)
    ELSE audio_segments

\* Mutant of _balance_sequences: the target is the shorter length.
_balance_sequencesMin(images, audio_segments, pydub) ==
    LET target_length == IF Len(images) <= Len(audio_segments)
                         THEN Len(images) ELSE Len(audio_segments)
    IN  <<SubSeq(ExtendImages(images, target_length), 1, target_length),
          SubSeq(ExtendAudio(audio_segments, target_length, pydub), 1, target_length)>>

\* Mutant of _balance_sequences: one element more than the longer list.
_balance_sequencesOneMore(images, audio_segments, pydub) ==
    LET target_length == Max(Len(images), Len(audio_segments)) + 1
    IN  <<SubSeq(ExtendImages(images, target_length), 1, target_length),
          SubSeq(ExtendAudio(audio_segments, target_length, pydub), 1, target_length)>>

\* lines 93-117; the result is <<images, audio_segments>>
_balance_sequences(images, audio_segments, pydub) ==
    LET target_length == Max(Len(images), Len(audio_segments))
    IN  <<SubSeq(ExtendImages(images, target_length), 1, target_length),
          SubSeq(ExtendAudio(audio_segments, target_length, pydub), 1, target_length)>>

\* lines 119-142: the measured duration, 3.0 s for bytes that do not decode
_get_audio_durations(audio_segments) ==
    [i \in 1..Len(audio_segments) |->
        IF audio_segments[i].wav THEN audio_segments[i].duration ELSE 30]

\* zip stops at the shorter list
Zip(a, b) == [i \in 1..(IF Len(a) <= Len(b) THEN Len(a) ELSE Len(b)) |-> <<a[i], b[i]>>]

\* lines 144-178: a clip per image, black when the image cannot be saved;
\* the fades leave the duration as it is
_create_image_clips(images, durations, transition_duration, saves) ==
    LET z == Zip(images, durations)
    IN  [i \in 1..Len(z) |->
            [image |-> IF saves THEN z[i][1] ELSE [kind |-> "black", scene |-> 0],
             duration |-> z[i][2]]]

\* lines 180-205: a clip per audio segment, 3.0 s of silence when it does
\* not decode
_create_audio_clips(audio_segments) ==
    [i \in 1..Len(audio_segments) |->
        [audio |-> audio_segments[i],
         duration |-> IF audio_segments[i].wav THEN audio_segments[i].duration ELSE 30]]

RECURSIVE SumDurations(_)
SumDurations(clips) ==
    IF clips = << >> THEN 0
    ELSE clips[1].duration + SumDurations(Tail(clips))

\* lines 207-241.  concatenates tells whether moviepy's concatenate_videoclips
\* returns; it cannot for an empty list.  The except branch gives a black
\* clip of 10 s.
_combine_clips(video_clips, audio_clips, transition_duration, concatenates) ==
    LET z == Zip(video_clips, audio_clips)
        synchronized_clips ==
            [i \in 1..Len(z) |-> [image |-> z[i][1].image, audio |-> z[i][2].audio,
                                  duration |-> z[i][2].duration]]
    IN  IF Len(synchronized_clips) = 1
        THEN [segments |-> synchronized_clips, black |-> FALSE,
              duration |-> synchronized_clips[1].duration]
        ELSE IF Len(synchronized_clips) > 0 /\ concatenates
        THEN [segments |-> synchronized_clips, black |-> FALSE,
              duration |-> SumDurations(synchronized_clips)]
        ELSE [segments |-> synchronized_clips, black |-> TRUE, duration |-> 100]

\* what the environment of one call does: pydub exports, PIL saves the
\* images, moviepy concatenates, write_videofile encodes
Environments == [pydub : BOOLEAN, saves : BOOLEAN, concatenates : BOOLEAN,
                 encodes : BOOLEAN]

\* lines 42-91: what one call leaves behind.  images and audio_segments are
\* the lists that reach the clip builders, returned is the value returned:
\* False when write_videofile raises.
create_video_from_sequences(images, audio_segments, transition_duration, image_display_time, env) ==
    LET balanced == IF Len(images) # Len(audio_segments)
                    THEN _balance_sequences(images, audio_segments, env.pydub)
                    ELSE <<images, audio_segments>>
        audio_durations == _get_audio_durations(balanced[2])
        image_durations == IF image_display_time = None THEN audio_durations
                           ELSE [i \in 1..Len(balanced[1]) |-> image_display_time.time]
        video_clips == _create_image_clips(balanced[1], image_durations,
                                           transition_duration, env.saves)
        audio_clips == _create_audio_clips(balanced[2])
        final_video == _combine_clips(video_clips, audio_clips, transition_duration,
                                      env.concatenates)
    IN  [called |-> TRUE, images |-> balanced[1], audio_segments |-> balanced[2],
         image_display_time |-> image_display_time,
         transition_duration |-> transition_duration,
         final_video |-> final_video, encodes |-> env.encodes,
         returned |-> env.encodes]

\* no call yet
NoVideo ==
    [called |-> FALSE, images |-> << >>, audio_segments |-> << >>,
     image_display_time |-> None, transition_duration |-> 0,
     final_video |-> [segments |-> << >>, black |-> FALSE, duration |-> 0],
     encodes |-> FALSE, returned |-> FALSE]

\* ---- core/validator.py ----
\* the most issues and warnings given to _calculate_quality_score
MaxIssues == 6
MaxWarnings == 2

\* A generation result as the score reads it: whether 'images' and
\* 'audio_segments' are present and not empty, and what 'video_path' is:
\* "missing" (no such key), "None", "absent" (no file there) or "present".
GenerationResults ==
    [images : BOOLEAN, audio_segments : BOOLEAN,
     video_path : {"missing", "None", "absent", "present"}]

NoResult == [images |-> FALSE, audio_segments |-> FALSE, video_path |-> "missing"]

\* Mutant of _calculate_quality_score: the final score is returned as it is.
_calculate_quality_scoreUnclamped(generation_result, issues, warnings) ==
    LET issue_penalty == issues * 2
        warning_penalty == warnings * 1
        completeness_bonus ==
            (IF generation_result.images THEN 3 ELSE 0)
            + (IF generation_result.audio_segments THEN 3 ELSE 0)
            + (IF generation_result.video_path = "present" THEN 4 ELSE 0)
        final_score == 10 - issue_penalty - warning_penalty + completeness_bonus
    IN  IF generation_result.video_path = "None" THEN 5
        ELSE final_score

\* Validator._calculate_quality_score, in tenths; issues and warnings are
\* the lengths of the two lists.  os.path.exists(None) raises TypeError,
\* which the except branch turns into 0.5.
_calculate_quality_score(generation_result, issues, warnings) ==
    LET issue_penalty == issues * 2
        warning_penalty == warnings * 1
        completeness_bonus ==
            (IF generation_result.images THEN 3 ELSE 0)
            + (IF generation_result.audio_segments THEN 3 ELSE 0)
            + (IF generation_result.video_path = "present" THEN 4 ELSE 0)
        final_score == 10 - issue_penalty - warning_penalty + completeness_bonus
    IN  IF generation_result.video_path = "None" THEN 5
        ELSE Max(0, Min({10, final_score}))

\* ---- the state after construction ----
Init ==
    /\ projects_db = << >>
    /\ active_processing = << >>
    /\ lists = (0 :> << >>)
    /\ runs = << >>
    /\ batch = [state |-> "none", project_ids |-> << >>, max_concurrent |-> 0,
                skip_errors |-> TRUE, first |-> 0, successes |-> 0]
    /\ tool = [status |-> "none", sequences |-> << >>, images |-> << >>,
               audio_segments |-> << >>, video |-> NoVideo, saves_project |-> FALSE]
    /\ video = NoVideo
    /\ balance = [called |-> FALSE, images |-> << >>, audio_segments |-> << >>,
                  result |-> << << >>, << >> >>]
    /\ quality = [called |-> FALSE, generation_result |-> NoResult,
                  issues |-> 0, warnings |-> 0, score |-> 0]
    /\ audio = [called |-> FALSE, text |-> 0, failed |-> FALSE,
                result |-> Speech(0, 0)]

\* ---- HTTP handlers ----
\* POST /projects: the id is a fresh uuid
create_project(text) ==
    LET p == Cardinality(DOMAIN projects_db) + 1
    IN  /\ p <= MaxProjects
        /\ text => Cardinality(Scheduled) < MaxRuns
        /\ projects_db' = Put(projects_db, p, Project(text))
        /\ runs' = IF text THEN Append(runs, NewRun(p, FALSE, FALSE)) ELSE runs
        /\ UNCHANGED <<active_processing, lists, batch, media>>

\* POST /projects/{id}/upload-text: text is whether the file is non-empty
upload_text_file(p, text) ==
    /\ p \in DOMAIN projects_db
    /\ Cardinality(Scheduled) < MaxRuns
    /\ projects_db' = [projects_db EXCEPT ![p].original_text = text]
    /\ runs' = Append(NoteStart(runs, {p}),
                      NewRun(p, FALSE, FALSE))
    /\ UNCHANGED <<active_processing, lists, batch, media>>

\* POST /projects/{id}/start-processing.  The two rejections (no text, flag
\* set) raise HTTP 400 before anything is written: they are stuttering steps.
start_processing(p) ==
    /\ p \in DOMAIN projects_db
    /\ projects_db[p].original_text
    /\ ~Active(Cur, p)
    /\ Cardinality(Scheduled) < MaxRuns
    /\ runs' = Append(NoteStart(runs, {p}),
                      NewRun(p, FALSE, SomeInProgress(p)))
    /\ UNCHANGED <<projects_db, active_processing, lists, batch, media>>

\* POST /projects/{id}/stop-processing: nothing is written when the project
\* has no entry in active_processing
stop_processing(p) ==
    /\ p \in DOMAIN projects_db
    /\ p \in DOMAIN active_processing
    /\ active_processing' = [active_processing EXCEPT ![p] = FALSE]
    /\ runs' = NoteStop(runs, p)
    /\ UNCHANGED <<projects_db, lists, batch, media>>

\* PUT /projects/{id} with a status in the body: the handler has no await and
\* looks at neither active_processing nor the status the project has.  The
\* title, description and settings it also writes are not in the model.
update_project(p, status) ==
    /\ p \in DOMAIN projects_db
    /\ Becomes(SetStatus(Cur, p, status))
    /\ UNCHANGED <<batch, media>>

\* POST /batch/process: one coroutine per listed id, in the order of the list
start_batch_processing(ids, limit, skip) ==
    /\ batch.state = "none"
    /\ \A i \in DOMAIN ids : ids[i] \in DOMAIN projects_db
    /\ runs' = NoteStart(runs, {ids[i] : i \in DOMAIN ids})
                 \o [i \in DOMAIN ids |->
                       NewRun(ids[i], TRUE, FALSE)]
    /\ batch' = [state |-> "running", project_ids |-> ids, max_concurrent |-> limit,
                 skip_errors |-> skip, first |-> Len(runs) + 1, successes |-> 0]
    /\ UNCHANGED <<projects_db, active_processing, lists, media>>

\* GET /projects/{id}/progress: the snapshot of a project, computed from the
\* state and writing nothing.  The percentage is the floor of the quotient.
get_progress(p) ==
    LET project == projects_db[p]
        scenes == lists[project.scenes]
        total_scenes == Len(scenes)
        completed_scenes ==
            Cardinality({k \in DOMAIN scenes :
                            /\ scenes[k].image_generation_status = "completed"
                            /\ scenes[k].video_generation_status = "completed"})
    IN  [current_step |-> project.status,
         progress_percentage |-> IF total_scenes > 0
                                 THEN (completed_scenes * 100) \div total_scenes ELSE 0,
         scenes_analyzed |-> Len(scenes),
         images_generated |-> project.stats.images_generated,
         videos_generated |-> project.stats.videos_generated,
         is_complete |-> project.status = "completed",
         has_errors |-> project.stats.failed_scenes > 0,
         error_count |-> project.stats.failed_scenes + project.stats.failed_images
                           + project.stats.failed_videos]

\* ---- background tasks ----
\* a scheduled background task starts to run
process_project_pipeline(r) ==
    /\ runs[r].pc = "scheduled"
    /\ Becomes(PipelineEntry(Cur, r))
    /\ UNCHANGED <<batch, media>>

\* analyze_text returns n >= 1 chunks, or the empty list when the model call
\* or the parsing of its answer failed (text_analyzer.py, lines 76-78)
process_text_analysis(r, n) ==
    /\ runs[r].pc = "analyze"
    /\ Becomes(AnalysisResumed(Cur, r, n, n = 0))
    /\ UNCHANGED <<batch, media>>

process_image_generation(r) ==
    /\ runs[r].pc = "image"
    /\ \E ok \in BOOLEAN : Becomes(ImageResumed(Cur, r, ok))
    /\ UNCHANGED <<batch, media>>

process_video_generation(r) ==
    /\ runs[r].pc = "video"
    /\ \E ok \in BOOLEAN : Becomes(VideoResumed(Cur, r, ok))
    /\ UNCHANGED <<batch, media>>

\* ---- process_batch_pipeline ----
Members == IF batch.state = "none" THEN {}
           ELSE batch.first .. (batch.first + Len(batch.project_ids) - 1)

RunningMembers(rs) == {r \in Members : InProgress(rs[r])}

\* Mutant of SlotFree: the semaphore never blocks.
SlotFreeUnbounded(b, rs) == TRUE

\* asyncio.Semaphore(max_concurrent): a slot is held from the entry of the
\* async with block to the end of the member's pipeline
SlotFree(b, rs) == Cardinality(RunningMembers(rs)) < b.max_concurrent

\* process_single_project: the waiters are served in the order of the list
process_single_project(r) ==
    /\ batch.state = "running"
    /\ r \in Members
    /\ runs[r].pc = "waiting"
    /\ \A s \in Members : s < r => runs[s].pc # "waiting"
    /\ SlotFree(batch, runs)
    /\ Becomes(PipelineEntry(Cur, r))
    /\ UNCHANGED <<batch, media>>

\* gather has every result: none of them is an exception unless a member raised
process_batch_pipeline ==
    /\ batch.state = "running"
    /\ \A r \in Members : runs[r].pc = "done"
    /\ batch' = [batch EXCEPT
                   !.state = "done",
                   !.successes = IF batch.skip_errors
                                 THEN Cardinality({r \in Members : runs[r].result # "raised"})
                                 ELSE @]
    /\ UNCHANGED <<projects_db, active_processing, lists, runs, media>>

BatchRequests ==
    {ids \in UNION {[1..k -> DOMAIN projects_db] : k \in 1..MaxBatch} : TRUE}

\* The handlers of one project and the pipelines they schedule.
Next ==
    \/ \E text \in BOOLEAN : create_project(text)
    \/ \E p \in ProjectIds, text \in BOOLEAN : upload_text_file(p, text)
    \/ \E p \in ProjectIds : start_processing(p)
    \/ \E p \in ProjectIds : stop_processing(p)
    \/ \E r \in DOMAIN runs : process_project_pipeline(r)
    \/ \E r \in DOMAIN runs, n \in 0..MaxScenes : process_text_analysis(r, n)
    \/ \E r \in DOMAIN runs : process_image_generation(r)
    \/ \E r \in DOMAIN runs : process_video_generation(r)

Spec == Init /\ [][Next]_vars

\* One batch over the projects created so far, with the pipelines of its
\* members and those create_project schedules.
NextBatch ==
    \/ \E text \in BOOLEAN :
          (text => Cardinality(Scheduled) < MaxCreated) /\ create_project(text)
    \/ \E ids \in BatchRequests, limit \in 0..MaxConcurrent, skip \in BOOLEAN :
          start_batch_processing(ids, limit, skip)
    \/ \E r \in DOMAIN runs : process_project_pipeline(r)
    \/ \E r \in DOMAIN runs : process_single_project(r)
    \/ \E r \in DOMAIN runs, n \in 0..MaxBatchScenes : process_text_analysis(r, n)
    \/ \E r \in DOMAIN runs : process_image_generation(r)
    \/ \E r \in DOMAIN runs : process_video_generation(r)
    \/ process_batch_pipeline

SpecBatch == Init /\ [][NextBatch]_vars

\* One project, its pipeline and the updates of its status by PUT.
NextUpdate ==
    \/ \E text \in BOOLEAN :
          (text => Cardinality(Scheduled) < MaxCreated) /\ create_project(text)
    \/ \E p \in ProjectIds, status \in ProjectStatus : update_project(p, status)
    \/ \E r \in DOMAIN runs : process_project_pipeline(r)
    \/ \E r \in DOMAIN runs, n \in 0..MaxBatchScenes : process_text_analysis(r, n)
    \/ \E r \in DOMAIN runs : process_image_generation(r)
    \/ \E r \in DOMAIN runs : process_video_generation(r)

SpecUpdate == Init /\ [][NextUpdate]_vars

\* ---- the media services: one call per behaviour ----
\* The generators keep nothing from one call to the next (but a temporary
\* directory), so a behaviour is one call of one of them: NextTool takes a
\* step only from the state in which none has been called.
Idle == /\ tool.status = "none" /\ ~video.called /\ ~balance.called
        /\ ~quality.called /\ ~audio.called

ImageItems == {Image(1), Image(2)}

AudioItems == {Speech(1, 10), Speech(2, 20), _create_silence_bytes(30, FALSE)}

ListsOf(S, n) == UNION {[1..k -> S] : k \in 0..n}

\* services/tool_service.py, lines 30-177.  The coroutine has no await: it
\* runs from its first line to its last in one step.  The analyzer it calls
\* (analyze_text with max_sequences) is not among the sources: it returns the
\* ordered list of the sequences, possibly empty (specification, 1).
\* create_video_from_sequences appends to the two lists it is given, so
\* the lists validated afterwards are the balanced ones.
ToolRun(sequences, ok, outs, env, saves_project) ==
    LET images == generate_sequence_images(sequences, ok)
        audio_segments == generate_sequence_audio(sequences, TRUE, outs, env.pydub)
        v == create_video_from_sequences(images, audio_segments, 5, None, env)
    IN  [status |-> IF v.returned /\ saves_project THEN "completed" ELSE "failed",
         sequences |-> sequences,
         images |-> v.images, audio_segments |-> v.audio_segments,
         video |-> v, saves_project |-> saves_project]

generate_media_async(sequences, ok, outs, env, saves_project) ==
    /\ tool' = ToolRun(sequences, ok, outs, env, saves_project)
    /\ UNCHANGED <<app, video, balance, quality, audio>>

\* a call of VideoGenerator.create_video_from_sequences by another caller
call_create_video_from_sequences(images, audio_segments, transition_duration, image_display_time, env) ==
    /\ video' = create_video_from_sequences(images, audio_segments, transition_duration,
                                            image_display_time, env)
    /\ UNCHANGED <<app, tool, balance, quality, audio>>

\* a call of VideoGenerator._balance_sequences
call_balance_sequences(images, audio_segments, pydub) ==
    /\ balance' = [called |-> TRUE, images |-> images, audio_segments |-> audio_segments,
                   result |-> _balance_sequences(images, audio_segments, pydub)]
    /\ UNCHANGED <<app, tool, video, quality, audio>>

\* a call of Validator._calculate_quality_score
call_calculate_quality_score(generation_result, issues, warnings) ==
    /\ quality' = [called |-> TRUE, generation_result |-> generation_result,
                   issues |-> issues, warnings |-> warnings,
                   score |-> _calculate_quality_score(generation_result, issues, warnings)]
    /\ UNCHANGED <<app, tool, video, balance, audio>>

\* a call of AudioGenerator.generate_audio
call_generate_audio(text, tts, speech, pydub) ==
    /\ audio' = [called |-> TRUE, text |-> text, failed |-> ~tts \/ speech.raised,
                 result |-> generate_audio(text, tts, speech, pydub)]
    /\ UNCHANGED <<app, tool, video, balance, quality>>

NextTool ==
    \/ Idle /\ \E n \in 0..MaxSequences :
         \E emotions \in [1..n -> BOOLEAN], ok \in [1..n -> BOOLEAN], env \in Environments,
            saves_project \in BOOLEAN :
           \E outs \in [1..n -> AudioOutcomes(env.pydub)] :
              generate_media_async([i \in 1..n |-> [emotions |-> emotions[i]]],
                                   ok, outs, env, saves_project)
    \/ Idle /\ \E images \in ListsOf(ImageItems, MaxTrack),
          audio_segments \in ListsOf(AudioItems, MaxTrack),
          transition_duration \in {0, 5}, image_display_time \in {None, Some(20)},
          env \in Environments :
            call_create_video_from_sequences(images, audio_segments, transition_duration,
                                             image_display_time, env)
    \/ Idle /\ \E images \in ListsOf(ImageItems, MaxTrack),
          audio_segments \in ListsOf(AudioItems, MaxTrack), pydub \in BOOLEAN :
            call_balance_sequences(images, audio_segments, pydub)

    \/ Idle /\ \E generation_result \in GenerationResults,
          issues \in 0..MaxIssues, warnings \in 0..MaxWarnings :
            call_calculate_quality_score(generation_result, issues, warnings)
    \/ Idle /\ \E text \in 0..MaxChars, tts \in BOOLEAN,
          speech \in {Raised, Spoken(10), Spoken(20)}, pydub \in BOOLEAN :
            call_generate_audio(text, tts, speech, pydub)

SpecTool == Init /\ [][NextTool]_vars

\* ======================= properties =======================

TypeOK ==
    /\ DOMAIN projects_db \subseteq ProjectIds
    /\ \A p \in DOMAIN projects_db :
          /\ projects_db[p].status \in ProjectStatus
          /\ projects_db[p].scenes \in DOMAIN lists
    /\ DOMAIN active_processing \subseteq DOMAIN projects_db
    /\ \A l \in DOMAIN lists : \A k \in DOMAIN lists[l] :
          /\ lists[l][k].image_generation_status \in ProcessingStep
          /\ lists[l][k].video_generation_status \in ProcessingStep
    /\ \A r \in DOMAIN runs : InProgress(runs[r]) /\ runs[r].pc # "analyze" =>
          runs[r].iter \in DOMAIN lists /\ runs[r].idx \in DOMAIN lists[runs[r].iter]

RunsOf(p) == {r \in DOMAIN runs : runs[r].proj = p}

\* C1: at every moment at most one execution of process_project_pipeline is
\* in progress for a given project id.
C1_SingleFlight ==
    \A p \in ProjectIds : Cardinality({r \in RunsOf(p) : InProgress(runs[r])}) <= 1

\* C2: start_processing for a project whose pipeline run is still in progress
\* is rejected: it schedules no pipeline (a rejected request writes nothing).
C2_StartRejectedWhileRunning ==
    \A r \in DOMAIN runs : ~runs[r].overlap

\* C3: a pipeline run cancelled through stop_processing before it completes
\* ends with project status FAILED, never COMPLETED or an intermediate status.
C3_CancelledEndsFailed ==
    \A r \in DOMAIN runs :
        runs[r].pc = "done" /\ runs[r].stopped => runs[r].endStatus = "failed"

\* C4: when stop_processing is called while scene k of a stage is being
\* synthesized and no start is accepted afterwards, no scene after k is set
\* to PROCESSING in that stage, no later stage is entered, and scene k's
\* synthesis runs to its end with its outcome recorded.
C4_NoSceneBeyondK ==
    \A r \in DOMAIN runs :
        runs[r].stopStage # "none" /\ ~runs[r].restarted /\ InProgress(runs[r]) =>
            /\ runs[r].pc = runs[r].stopStage
            /\ runs[r].idx = runs[r].stopK

C4_OutcomeRecorded ==
    \A r \in DOMAIN runs :
        /\ runs[r].stopStage # "none" /\ ~runs[r].restarted
        /\ runs'[r].pc # runs[r].pc \/ runs'[r].idx # runs[r].idx
        /\ runs[r].iter \in DOMAIN lists'
        => LET sc == lists'[runs[r].iter][runs[r].stopK]
           IN  IF runs[r].stopStage = "image"
               THEN sc.image_generation_status \in {"completed", "failed"}
               ELSE sc.video_generation_status \in {"completed", "failed"}

C4_StopAtSceneBoundary == []C4_NoSceneBeyondK /\ [][C4_OutcomeRecorded]_vars

\* C9: a failure of one scene's image or video synthesis never sets the
\* project status to FAILED; the pipeline goes on with the next scene and,
\* when not cancelled, ends COMPLETED.
C9_EndsCompleted ==
    \A r \in DOMAIN runs :
        runs[r].pc = "done" /\ runs[r].unitFailed =>
            /\ runs[r].endStatus # "failed"
            /\ ~runs[r].cancelled => runs[r].endStatus = "completed"

Moved(r) == runs'[r].pc # runs[r].pc \/ runs'[r].idx # runs[r].idx

C9_GoesOn ==
    \A r \in DOMAIN runs :
        LET p == runs[r].proj
            l == runs[r].iter
            k == runs[r].idx
            later == {j \in (k + 1)..Len(lists[l]) :
                        /\ lists[l][j].image_generation_status = "completed"
                        /\ lists[l][j].image_path}
        IN  /\ (/\ runs[r].pc = "image" /\ Moved(r) /\ Active(Cur, p)
                /\ projects_db'[p].stats.failed_images = projects_db[p].stats.failed_images + 1
                /\ projects_db[p].scenes = l
                /\ k < Len(lists[l])
                => /\ runs'[r].pc = "image" /\ runs'[r].idx = k + 1
                   /\ lists'[l][k].image_generation_status = "failed"
                   /\ projects_db'[p].status = projects_db[p].status)
            /\ (/\ runs[r].pc = "video" /\ Moved(r) /\ Active(Cur, p)
                /\ projects_db'[p].stats.failed_videos = projects_db[p].stats.failed_videos + 1
                /\ later # {}
                => /\ runs'[r].pc = "video" /\ runs'[r].idx = Min(later)
                   /\ lists'[l][k].video_generation_status = "failed"
                   /\ projects_db'[p].status = projects_db[p].status)

C9_UnitFailureIsolated == []C9_EndsCompleted /\ [][C9_GoesOn]_vars

C9_Witness ==
    \E r \in DOMAIN runs :
        /\ runs[r].pc = "done" /\ runs[r].unitFailed /\ ~runs[r].cancelled
        /\ runs[r].endStatus = "completed"
        /\ projects_db[runs[r].proj].stats.failed_images > 0

\* C10: when scene segmentation fails, the pipeline run ends with project
\* status FAILED and never reaches COMPLETED.
C10_SegmentationFailureFails ==
    \A r \in DOMAIN runs :
        runs[r].pc = "done" /\ runs[r].segFailed => runs[r].endStatus = "failed"

\* C5: within one batch with max_concurrent = L, the number of member
\* pipelines executing at the same time never exceeds L, and a waiting
\* member starts only when fewer than L members hold a slot.
C5_WithinLimit ==
    batch.state = "running" => Cardinality(RunningMembers(runs)) <= batch.max_concurrent

C5_StartsOnFreeSlot ==
    \A r \in Members :
        runs[r].pc = "waiting" /\ runs'[r].pc # "waiting" =>
            Cardinality(RunningMembers(runs)) < batch.max_concurrent

C5_ConcurrencyLimit == []C5_WithinLimit /\ [][C5_StartsOnFreeSlot]_vars

C5_Witness ==
    /\ batch.state = "running"
    /\ Cardinality(RunningMembers(runs)) = batch.max_concurrent
    /\ \E r \in Members : runs[r].pc = "waiting"

\* C6: in a batch with skip_errors = true, a member whose pipeline fails does
\* not stop, cancel or change the state of any other member project: the
\* step in which it fails leaves the others as they were, the member next in
\* line can still start whenever a slot is free, and the batch ends only
\* when every member's pipeline has run to its end.
C6_SiblingsUntouched ==
    \A r \in Members :
        /\ batch.skip_errors
        /\ runs[r].pc # "done" /\ runs'[r].pc = "done" /\ runs'[r].endStatus = "failed"
        => \A s \in Members :
              LET q == runs[s].proj
              IN  q # runs[r].proj =>
                    /\ runs'[s] = runs[s]
                    /\ projects_db'[q] = projects_db[q]
                    /\ Active(Cur, q)' = Active(Cur, q)
                    /\ lists'[projects_db[q].scenes] = lists[projects_db[q].scenes]

C6_StillStarted ==
    /\ batch.state = "running" /\ batch.skip_errors
    /\ \E m \in Members : runs[m].endStatus = "failed"
    => \A r \in Members :
          /\ runs[r].pc = "waiting"
          /\ \A s \in Members : s < r => runs[s].pc # "waiting"
          /\ Cardinality(RunningMembers(runs)) < batch.max_concurrent
          => ENABLED process_single_project(r)

C6_AllMembersRan ==
    batch.state = "done" /\ batch.skip_errors =>
        \A r \in Members : runs[r].pc = "done" /\ runs[r].endStatus # "none"

C6_SkipErrorsIsolation ==
    [][C6_SiblingsUntouched]_vars /\ []C6_StillStarted /\ []C6_AllMembersRan

C6_Witness ==
    /\ batch.state = "done" /\ batch.skip_errors
    /\ \E r, s \in Members :
          /\ runs[r].proj # runs[s].proj
          /\ runs[r].endStatus = "failed"
          /\ runs[s].endStatus = "completed"
          /\ r < s

\* C7: in a batch with skip_errors = false, once one member pipeline has
\* failed, no member that has not started is started afterwards, and every
\* member still running has its flag in active_processing cleared.
C7_NoStartAfterFailure ==
    ~batch.skip_errors /\ (\E m \in Members : runs[m].endStatus = "failed") =>
        \A s \in Members : runs[s].pc = "waiting" => runs'[s].pc = "waiting"

C7_RunningAreCancelled ==
    ~batch.skip_errors /\ (\E m \in Members : runs[m].endStatus = "failed") =>
        \A s \in Members : InProgress(runs[s]) => ~Active(Cur, runs[s].proj)

C7_FailFast == []C7_RunningAreCancelled /\ [][C7_NoStartAfterFailure]_vars

\* C8: when a skip_errors batch finishes, the number of successes it reports
\* is the number of members whose pipeline ended COMPLETED; a member whose
\* pipeline ended FAILED is not among the successes.
C8_SuccessCount ==
    batch.state = "done" /\ batch.skip_errors =>
        batch.successes = Cardinality({r \in Members : runs[r].endStatus = "completed"})

\* C11: after a pipeline run that was not cancelled, every scene has media
\* for every stage: a scene whose image synthesis failed still has an image
\* (a fallback) and has gone through the video stage, so that no scene is
\* left with video_generation_status PENDING.
C11_EverySceneHasMedia ==
    \A r \in DOMAIN runs :
        LET p == runs[r].proj
        IN  /\ runs[r].pc = "done" /\ ~runs[r].cancelled
            /\ runs[r].endStatus = "completed"
            /\ projects_db[p].scenes = r
            => \A k \in DOMAIN lists[r] :
                  /\ lists[r][k].image_path
                  /\ lists[r][k].video_generation_status # "pending"

\* the calls of create_video_from_sequences made so far: the one of the
\* ToolService run and the one of another caller
VideoCalls == {v \in {tool.video, video} : v.called}

\* C12: when the final video encoding fails, composition still yields a
\* placeholder video and reports success, and the ToolService run is
\* recorded as completed, not as failed (provided the project data can be
\* saved afterwards).
C12_EncodingFailureDegrades ==
    /\ \A v \in VideoCalls : ~v.encodes => v.returned
    /\ tool.video.called /\ ~tool.video.encodes /\ tool.saves_project
       => tool.status = "completed"

\* C13: for N >= 1 sequences, the image track and the audio track ToolService
\* composes pair, at every index, the image and the narration audio of the
\* same sequence.
C13_TracksPairSameScene ==
    tool.status # "none" /\ Len(tool.sequences) >= 1 =>
        /\ Len(tool.video.images) = Len(tool.video.audio_segments)
        /\ \A i \in DOMAIN tool.video.images :
              tool.video.images[i].scene = tool.video.audio_segments[i].scene

\* C14: _balance_sequences returns two lists of length max(len(images),
\* len(audio)); each begins with the whole input list in its order, and every
\* element after it equals the input's last element, or is a placeholder
\* (a black image, silence) when the input list was empty.
PaddedFrom(out, in, target_length, placeholders) ==
    /\ Len(out) = target_length
    /\ SubSeq(out, 1, Len(in)) = in
    /\ \A k \in (Len(in) + 1)..target_length :
          IF in # << >> THEN out[k] = in[Len(in)] ELSE out[k] \in placeholders

C14_BalanceContract ==
    balance.called =>
        LET target_length == Max(Len(balance.images), Len(balance.audio_segments))
        IN  /\ PaddedFrom(balance.result[1], balance.images, target_length,
                          {_create_placeholder_image})
            /\ PaddedFrom(balance.result[2], balance.audio_segments, target_length,
                          {_create_silence_bytes(30, pydub) : pydub \in BOOLEAN})

C14_Witness ==
    /\ balance.called
    /\ Len(balance.images) = 2 /\ balance.images[1] # balance.images[2]
    /\ Len(balance.audio_segments) = 3
    /\ balance.result[1] = Append(balance.images, balance.images[2])
    /\ balance.result[2] = balance.audio_segments

\* C15: for every pair of lists given to create_video_from_sequences, an
\* empty image list, an empty audio list or both included, the tracks that
\* reach composition are non-empty and have one image and one audio clip at
\* every index.
C15_TracksNeverEmpty ==
    \A v \in VideoCalls :
        /\ Len(v.images) = Len(v.audio_segments)
        /\ Len(v.images) > 0

\* C16: balancing is idempotent: lists that are non-empty and of equal
\* length come back unchanged, and so does the result of a balancing when
\* it is balanced again.
C16_BalanceIdempotent ==
    balance.called =>
        /\ (/\ Len(balance.images) = Len(balance.audio_segments)
            /\ balance.images # << >>
            => balance.result = <<balance.images, balance.audio_segments>>)
        /\ (balance.result[1] # << >> =>
              \A pydub \in BOOLEAN :
                 _balance_sequences(balance.result[1], balance.result[2], pydub)
                   = balance.result)

C16_Witness ==
    /\ balance.called
    /\ Len(balance.images) = 2 /\ Len(balance.audio_segments) = 2
    /\ balance.images[1] # balance.images[2]
    /\ balance.result = <<balance.images, balance.audio_segments>>

\* C17: the duration of the composed timeline is the sum, over its segments,
\* of the duration measured from the segment's audio clip (3.0 s for a clip
\* that does not decode), with or without image_display_time; fades and
\* transitions do not shorten it.
C17_DurationIsSumOfAudio ==
    \A v \in VideoCalls :
        v.final_video.duration = SumDurations(_create_audio_clips(v.audio_segments))

\* C18: in every progress snapshot has_errors is true whenever error_count
\* is positive, that is whenever the image or video synthesis of at least
\* one scene has failed.
C18_ErrorsAreFlagged ==
    \A p \in DOMAIN projects_db :
        get_progress(p).error_count > 0 => get_progress(p).has_errors

\* C19: during a pipeline run that is neither cancelled nor failing, the
\* project status takes exactly the values of StatusOrder, in that order,
\* without skipping one and without moving backwards.
C19_StatusInOrder ==
    \A r \in DOMAIN runs :
        runs[r].pc = "done" /\ ~runs[r].cancelled /\ runs[r].endStatus # "failed"
            => runs[r].inOrder

\* C20: a project whose status is COMPLETED or FAILED can be started again;
\* the restart sets the flag in active_processing again and the status is
\* CREATED before it becomes TEXT_ANALYZING.
C20_StatusReset ==
    \A p \in DOMAIN projects_db :
        /\ projects_db[p].status \in {"completed", "failed"}
        /\ projects_db'[p].status = "text_analyzing"
        => FALSE

C20_FlagSet ==
    \A r \in DOMAIN runs :
        runs[r].pc \in {"scheduled", "waiting"} /\ runs'[r].pc = "analyze"
            => Active(Cur, runs[r].proj)'

C20_RestartFromCreated == [][C20_StatusReset /\ C20_FlagSet]_vars

\* C21: while a pipeline run is in progress for a project, every change of
\* the project's status, source text, scenes or stats is made by that run:
\* a step that changes one of them is a step of every run in progress on
\* the project.
C21_View(p) == <<projects_db[p], lists[projects_db[p].scenes]>>

C21_OnlyTheRunWrites ==
    \A r \in DOMAIN runs :
        InProgress(runs[r]) /\ C21_View(runs[r].proj)' # C21_View(runs[r].proj)
            => Moved(r)

C21_SingleWriter == [][C21_OnlyTheRunWrites]_vars

\* C22: every accepted batch eventually finishes, whatever max_concurrent the
\* request carries, when every external call returns: as long as the batch
\* is running, a member is in progress (it awaits an external call, which
\* returns), or a waiting member can start, or the batch itself can end.
C22_BatchNeverStuck ==
    batch.state = "running" =>
        \/ ENABLED process_batch_pipeline
        \/ \E r \in Members : InProgress(runs[r]) \/ ENABLED process_single_project(r)

\* C23: the quality score the validator computes lies within [0, 1] (0..10
\* tenths), for any number of issues and warnings and any combination of
\* present or missing images, audio and video.
C23_ScoreInRange ==
    quality.called => quality.score >= 0 /\ quality.score <= 10

C23_Witness ==
    /\ quality.called
    /\ quality.generation_result = NoResult
    /\ quality.issues * 2 + quality.warnings > 10
    /\ quality.score = 0

\* C30: when the narration synthesis of a text of n characters fails, the
\* audio returned is silence of max(1.0 s, 0.1 s x n), whatever the cause
\* of the failure.
C30_FallbackSilenceLength ==
    audio.called /\ audio.failed =>
        /\ audio.result.kind = "silence"
        /\ audio.result.duration = Max(10, audio.text)

\* C24: a stop_processing request issued while a pipeline run is in progress
\* is honoured by that run at its next checkpoint, whatever is accepted for
\* the project afterwards: the next step of the stopped run is its last, it
\* goes to no further scene and no further stage, and it does not end
\* COMPLETED.
C24_StoppedRunEnds ==
    \A r \in DOMAIN runs :
        runs[r].stopped /\ InProgress(runs[r]) /\ Moved(r)
            => runs'[r].pc = "done" /\ runs'[r].endStatus # "completed"

C24_StopHonoured == [][C24_StoppedRunEnds]_vars

\* C25: once a pipeline run has set a project's status to COMPLETED or
\* FAILED, no run that had started before changes the status again.  A run
\* sets the status to TEXT_ANALYZING when it starts and only runs write the
\* status here, so a run in progress on a project whose status is COMPLETED
\* or FAILED started before that status was set: none of its steps changes
\* the status.
C25_NoLateWrite ==
    \A r \in DOMAIN runs :
        /\ InProgress(runs[r]) /\ Moved(r)
        /\ projects_db[runs[r].proj].status \in {"completed", "failed"}
        => projects_db'[runs[r].proj].status = projects_db[runs[r].proj].status

C25_TerminalStatusStable == [][C25_NoLateWrite]_vars

\* C26: in every state, also after a project has been processed more than
\* once, images_generated + failed_images <= total_scenes and
\* videos_generated + failed_videos <= total_scenes.
C26_CountersWithinTotal ==
    \A p \in DOMAIN projects_db :
        LET stats == projects_db[p].stats
        IN  /\ stats.images_generated + stats.failed_images <= stats.total_scenes
            /\ stats.videos_generated + stats.failed_videos <= stats.total_scenes

\* C27: whenever a project's status is COMPLETED its progress snapshot has
\* is_complete = true and progress_percentage = 100, and in every snapshot
\* progress_percentage lies within 0..100.
C27_CompletedIsHundred ==
    \A p \in DOMAIN projects_db :
        /\ get_progress(p).progress_percentage \in 0..100
        /\ projects_db[p].status = "completed" =>
              /\ get_progress(p).is_complete
              /\ get_progress(p).progress_percentage = 100

\* C28: within one pipeline run each stage takes the scenes one at a time in
\* strictly ascending order: while the run synthesizes scene k of a stage,
\* the scenes before k have ended that stage and no scene after k is
\* PROCESSING in it; the next scene it takes has a higher index; and while
\* the run is in its video stage the image stage has ended for every scene
\* of the list.
C28_Ended == {"completed", "failed"}

C28_OneAtATime ==
    \A r \in DOMAIN runs :
        LET scenes == lists[runs[r].iter]
            k == runs[r].idx
        IN  /\ runs[r].pc = "image" =>
                 \A j \in DOMAIN scenes :
                    /\ j < k => scenes[j].image_generation_status \in C28_Ended
                    /\ j > k => scenes[j].image_generation_status # "processing"
            /\ runs[r].pc = "video" =>
                 \A j \in DOMAIN scenes :
                    /\ scenes[j].image_generation_status \in C28_Ended
                    /\ j < k => scenes[j].video_generation_status # "processing"
                    /\ j > k => scenes[j].video_generation_status # "processing"

C28_Ascending ==
    \A r \in DOMAIN runs :
        /\ runs[r].pc \in {"image", "video"} /\ runs'[r].pc = runs[r].pc /\ Moved(r)
        => runs'[r].idx > runs[r].idx /\ runs'[r].iter = runs[r].iter

C28_SceneOrder == []C28_OneAtATime /\ [][C28_Ascending]_vars

\* C29: each attempted synthesis of a scene's image (resp. video) adds
\* exactly one to exactly one of images_generated and failed_images (resp.
\* videos_generated and failed_videos), and the scene's step becomes
\* COMPLETED exactly when the generated counter is the one incremented,
\* FAILED otherwise.  S is the state in which run r awaits the synthesis of
\* scene idx and T the state its next step gives; the image attempts of the
\* step are the scenes from idx on whose step has ended in T.
C29_ImageAttempts(S, T, r) ==
    LET p == S.runs[r].proj
        l == S.runs[r].iter
        attempts == {j \in S.runs[r].idx .. Len(S.lists[l]) :
                        T.lists[l][j].image_generation_status \in {"completed", "failed"}}
        generated == {j \in attempts : T.lists[l][j].image_generation_status = "completed"}
    IN  /\ S.runs[r].idx \in attempts
        /\ T.db[p].stats.images_generated
              = S.db[p].stats.images_generated + Cardinality(generated)
        /\ T.db[p].stats.failed_images
              = S.db[p].stats.failed_images + Cardinality(attempts \ generated)
        /\ T.db[p].stats.videos_generated = S.db[p].stats.videos_generated
        /\ T.db[p].stats.failed_videos = S.db[p].stats.failed_videos

C29_VideoAttempt(S, T, r) ==
    LET p == S.runs[r].proj
        after == T.lists[S.runs[r].iter][S.runs[r].idx].video_generation_status
    IN  /\ after \in {"completed", "failed"}
        /\ T.db[p].stats.videos_generated
              = S.db[p].stats.videos_generated + (IF after = "completed" THEN 1 ELSE 0)
        /\ T.db[p].stats.failed_videos
              = S.db[p].stats.failed_videos + (IF after = "failed" THEN 1 ELSE 0)
        /\ T.db[p].stats.images_generated = S.db[p].stats.images_generated
        /\ T.db[p].stats.failed_images = S.db[p].stats.failed_images

C29_OneCounterPerAttempt ==
    \A r \in DOMAIN runs, ok \in BOOLEAN :
        /\ runs[r].pc = "image" => C29_ImageAttempts(Cur, ImageResumed(Cur, r, ok), r)
        /\ runs[r].pc = "video" => C29_VideoAttempt(Cur, VideoResumed(Cur, r, ok), r)

C29_Witness ==
    \E r \in DOMAIN runs :
        /\ runs[r].pc = "video"
        /\ projects_db[runs[r].proj].stats.images_generated >= 1
        /\ projects_db[runs[r].proj].stats.failed_images >= 1

====
